---- MODULE Spec2Model ----
(***************************************************************************)
(* Model of the AITA judgement pipeline: judgement extraction from comment *)
(* bodies (aita/reddit_scrapr.py), the cached comment fetch, the score     *)
(* summary, the date-range partition, and the label derivation of          *)
(* aita/aita_labels.py as driven by AitaScrapeFlow.aggregate_comments.     *)
(*                                                                         *)
(* Python strings are sequences of one-character strings, so that the      *)
(* substring test `x in body` is a real search.  Python dicts are          *)
(* sequences of <<key, value>> pairs, so that iteration order is part of   *)
(* the value.  A float quotient a / b is the record [num |-> a, den |-> b] *)
(* with den > 0, compared by cross-multiplication.                         *)
(***************************************************************************)
EXTENDS Integers, Sequences, FiniteSets, TLC

VARIABLES
    \* classify harness: one call of aita_comment_judgement
    comment_body, judgement_out,
    \* date harness: one call of get_date_ranges
    date_start, date_end, day_increment, date_ranges,
    \* parallel comment_judgements calls over the pickle directory
    posts, pc, comments, pkl, pulls, dumps, returned,
    \* summary harness: parse_comment over a thread, then aita_score_summary
    top_level, parsed, summary_min, score_summary,
    \* the flow: get_comments then aggregate_comments
    submissions, flow_step, post_comments, aggregated_comments,
    asshole_results,
    \* label encoder harness: one call of an encoder on a dict
    dd, ths, encoder, label

classifyVars == <<comment_body, judgement_out>>
dateVars == <<date_start, date_end, day_increment, date_ranges>>
fetchVars == <<posts, pc, comments, pkl, pulls, dumps, returned>>
summaryVars == <<top_level, parsed, summary_min, score_summary>>
flowVars == <<submissions, flow_step, post_comments, aggregated_comments, asshole_results>>
labelVars == <<dd, ths, encoder, label>>
vars == <<classifyVars, dateVars, fetchVars, summaryVars, flowVars, labelVars>>

None == "None"

\* the outcome of a call: a returned value or a raised exception; a variable that
\* holds an outcome is Idle outside its harness and Pending before the call
Ok(v) == [status |-> "ok", value |-> v]

Raise(e) == [status |-> "raised", value |-> e]

Idle == [status |-> "idle"]

Pending == [status |-> "pending"]

(***************************************************************************)
(* Bounds of the model.                                                    *)
(***************************************************************************)
\* fragments concatenated into a comment body of the classify harness
MaxFragments == 3
\* longest period (in days, beyond the first) of the date harness
MaxSpan == 9
\* largest day_increment of the date harness
MaxIncrement == 4
\* posts handed to one flow run
MaxPosts == 2
\* top-level comments of one post
MaxComments == 2
\* comment_judgements calls run side by side by parallel_map
MaxCalls == 3
\* numerators of the dict values of the encoder harness run over 0..MaxNum
MaxNum == 2

(***************************************************************************)
(* Strings.                                                                *)
(***************************************************************************)
RECURSIVE Concat(_)
Concat(ss) == IF ss = <<>> THEN <<>> ELSE Head(ss) \o Concat(Tail(ss))

\* Python's `pat in body` for two strings
StrIn(pat, body) ==
    \E i \in 0..(Len(body) - Len(pat)) : \A k \in 1..Len(pat) : body[i + k] = pat[k]

(***************************************************************************)
(* class Judgement(Enum): the member names in value order 0..3.            *)
(***************************************************************************)
Judgement == <<"YTA", "NTA", "NAH", "ESH">>

JudgementNames == {Judgement[i] : i \in 1..Len(Judgement)}

\* the characters of a member's name
NameChars(name) ==
    CASE name = "YTA" -> <<"Y", "T", "A">>
      [] name = "NTA" -> <<"N", "T", "A">>
      [] name = "NAH" -> <<"N", "A", "H">>
      [] name = "ESH" -> <<"E", "S", "H">>

BotMarker == <<"I", " ", "a", "m", " ", "a", " ", "b", "o", "t">>
AutomodMarker == <<"A", "U", "T", "O", "M", "O", "D">>

\* mutant: the AUTOMOD marker is not looked for
is_comment_from_mod_bot_only(body) ==
    IF StrIn(BotMarker, body) THEN TRUE ELSE FALSE

is_comment_from_mod(body) ==
    IF StrIn(BotMarker, body) \/ StrIn(AutomodMarker, body) THEN TRUE ELSE FALSE

\* the list comprehension of aita_comment_judgement
final_judgement(body) ==
    SelectSeq(Judgement, LAMBDA name : StrIn(NameChars(name), body))

aita_comment_judgement(body) ==
    IF is_comment_from_mod(body) THEN None
    ELSE IF Len(final_judgement(body)) = 1 THEN final_judgement(body)[1]
    ELSE None

\* score a moderator or bot comment is given
ModScore == -9999

\* mutant: a moderator comment keeps its own score
parse_comment_keeps_score(comment) ==
    [body |-> comment.body, score |-> comment.score,
     judgement |-> aita_comment_judgement(comment.body)]

\* a praw comment is [body, score]; a Comment is [body, score, judgement]
parse_comment(comment) ==
    IF is_comment_from_mod(comment.body)
    THEN [body |-> comment.body, score |-> ModScore, judgement |-> None]
    ELSE [body |-> comment.body, score |-> comment.score,
          judgement |-> aita_comment_judgement(comment.body)]


(***************************************************************************)
(* Classify harness: aita_comment_judgement applied to one comment body.   *)
(***************************************************************************)
Fragments ==
    { <<"Y", "T", "A">>, <<"N", "T", "A">>, <<"N", "A", "H">>, <<"E", "S", "H">>,
      BotMarker, AutomodMarker,
      <<" ">>, <<"Y", "T">>, <<"A">>, <<"N", "A">>, <<"H">>,
      <<"I", " ", "a", "m", " ", "a", " ", "b">>, <<"o", "t">>,
      <<"A", "U", "T", "O">>, <<"M", "O", "D">>,
      <<"y", "t", "a">> }

Bodies ==
    {Concat(f) : f \in UNION {[1..n -> Fragments] : n \in 0..MaxFragments}}

ClassifyIdle == comment_body = <<>> /\ judgement_out = "idle"

\* one call aita_comment_judgement(comment_body)
Classify ==
    /\ judgement_out = "pending"
    /\ judgement_out' = aita_comment_judgement(comment_body)
    /\ UNCHANGED <<comment_body, dateVars, fetchVars, summaryVars, flowVars, labelVars>>

(***************************************************************************)
(* Dates.  A date string "YYYY-MM-DD" is the triple <<y, m, d>>; a         *)
(* timestamp is the number of days since 2019-01-01.                       *)
(***************************************************************************)
IsLeap(y) == (y % 4 = 0 /\ y % 100 # 0) \/ y % 400 = 0

DaysInMonth(y, m) ==
    IF m = 2 THEN (IF IsLeap(y) THEN 29 ELSE 28)
    ELSE IF m \in {4, 6, 9, 11} THEN 30 ELSE 31

DaysInYear(y) == IF IsLeap(y) THEN 366 ELSE 365

RECURSIVE DaysBeforeMonth(_, _)
DaysBeforeMonth(y, m) ==
    IF m = 1 THEN 0 ELSE DaysBeforeMonth(y, m - 1) + DaysInMonth(y, m - 1)

RECURSIVE DaysBeforeYear(_)
DaysBeforeYear(y) ==
    IF y = 2019 THEN 0 ELSE DaysBeforeYear(y - 1) + DaysInYear(y - 1)

\* pd.to_datetime of a date string
to_datetime(date) ==
    DaysBeforeYear(date[1]) + DaysBeforeMonth(date[1], date[2]) + (date[3] - 1)

RECURSIVE MonthOf(_, _, _)
MonthOf(y, m, rest) ==
    IF rest < DaysInMonth(y, m) THEN <<y, m, rest + 1>>
    ELSE MonthOf(y, m + 1, rest - DaysInMonth(y, m))

RECURSIVE YearOf(_, _)
YearOf(y, rest) ==
    IF rest < DaysInYear(y) THEN MonthOf(y, 1, rest)
    ELSE YearOf(y + 1, rest - DaysInYear(y))

\* Timestamp.strftime("%Y-%m-%d")
strftime(ts) == YearOf(2019, ts)

\* list(pd.date_range(first, last, freq=f"{inc}d")): first, first + inc, ... up to last
RECURSIVE pd_date_range(_, _, _)
pd_date_range(first, last, inc) ==
    IF first > last THEN <<>> ELSE <<first>> \o pd_date_range(first + inc, last, inc)

\* mutant: the end of the period is never appended
date_increments_no_append(first, last, inc) == pd_date_range(first, last, inc)

\* date_increments after the `if date_increments[-1] != date_end` append
date_increments(first, last, inc) ==
    LET incs == pd_date_range(first, last, inc)
    IN  IF incs[Len(incs)] # last THEN Append(incs, last) ELSE incs

get_date_ranges(start, end, inc) ==
    LET first == to_datetime(start)
        last  == to_datetime(end) + 1
        incs  == date_increments(first, last, inc)
    IN  [idx \in 1..(Len(incs) - 1) |->
            [start |-> strftime(incs[idx]), end |-> strftime(incs[idx + 1] - 1)]]

StartDates == {<<2019, 12, 30>>, <<2020, 1, 1>>, <<2020, 2, 26>>}

DateIdle ==
    /\ date_start = <<2019, 1, 1>> /\ date_end = <<2019, 1, 1>>
    /\ day_increment = 1 /\ date_ranges = Idle

\* one call get_date_ranges(date_start, date_end, day_increment)
GetDateRanges ==
    /\ date_ranges = Pending
    /\ date_ranges' = Ok(get_date_ranges(date_start, date_end, day_increment))
    /\ UNCHANGED <<date_start, date_end, day_increment, classifyVars, fetchVars,
                   summaryVars, flowVars, labelVars>>


(***************************************************************************)
(* comment_judgements(post_id, data_dir), one call per element of posts,   *)
(* run side by side by parallel_map.  pkl[id] is the file                   *)
(* data_dir/<id>.pkl: missing, truncated (opened "wb", nothing dumped yet) *)
(* or written with the pickled list.                                       *)
(***************************************************************************)
PostIds == {"p1", "p2"}

\* a praw MoreComments object; isinstance(x, MoreComments) is IsMoreComments(x)
MoreComments == [count |-> 3]

IsMoreComments(x) == "count" \in DOMAIN x

\* reddit.submission(id=post_id).comments of the remote service
submission_comments(post_id) ==
    IF post_id = "p1"
    THEN << [body |-> AutomodMarker \o <<" ">> \o NameChars("YTA"), score |-> 50],
            MoreComments,
            [body |-> NameChars("NTA"), score |-> 30] >>
    ELSE << [body |-> NameChars("YTA"), score |-> 40] >>

\* the loop over the top-level comments, MoreComments skipped
RECURSIVE pull_comments(_)
pull_comments(tops) ==
    IF tops = <<>> THEN <<>>
    ELSE IF IsMoreComments(Head(tops)) THEN pull_comments(Tail(tops))
    ELSE <<parse_comment(Head(tops))>> \o pull_comments(Tail(tops))

Calls == 1..Len(posts)

FetchIdle ==
    /\ posts = <<>> /\ pc = <<>> /\ comments = <<>> /\ returned = <<>>
    /\ pkl = [id \in PostIds |-> [state |-> "missing"]]
    /\ pulls = [id \in PostIds |-> 0]
    /\ dumps = [id \in PostIds |-> 0]

\* `if comments_pkl.exists()`
Exists(c) ==
    /\ pc[c] = "exists"
    /\ pc' = [pc EXCEPT ![c] = IF pkl[posts[c]].state # "missing" THEN "load" ELSE "pull"]
    /\ UNCHANGED <<posts, comments, pkl, pulls, dumps, returned>>
    /\ UNCHANGED <<classifyVars, dateVars, summaryVars, flowVars, labelVars>>

\* pickle.load of the file and return; a file with nothing dumped yet raises
Load(c) ==
    /\ pc[c] = "load"
    /\ pc' = [pc EXCEPT ![c] = "done"]
    /\ returned' = [returned EXCEPT ![c] =
                        IF pkl[posts[c]].state = "truncated" THEN Raise("EOFError")
                        ELSE Ok(pkl[posts[c]].data)]
    /\ UNCHANGED <<posts, comments, pkl, pulls, dumps>>
    /\ UNCHANGED <<classifyVars, dateVars, summaryVars, flowVars, labelVars>>

\* the remote pull and the parse loop
Pull(c) ==
    /\ pc[c] = "pull"
    /\ pc' = [pc EXCEPT ![c] = "open"]
    /\ pulls' = [pulls EXCEPT ![posts[c]] = @ + 1]
    /\ comments' = [comments EXCEPT ![c] = pull_comments(submission_comments(posts[c]))]
    /\ UNCHANGED <<posts, pkl, dumps, returned>>
    /\ UNCHANGED <<classifyVars, dateVars, summaryVars, flowVars, labelVars>>

\* open(comments_pkl, "wb") creates or truncates the file
Open(c) ==
    /\ pc[c] = "open"
    /\ pc' = [pc EXCEPT ![c] = "dump"]
    /\ pkl' = [pkl EXCEPT ![posts[c]] = [state |-> "truncated"]]
    /\ UNCHANGED <<posts, comments, pulls, dumps, returned>>
    /\ UNCHANGED <<classifyVars, dateVars, summaryVars, flowVars, labelVars>>

\* pickle.dump, close, return comments
Dump(c) ==
    /\ pc[c] = "dump"
    /\ pc' = [pc EXCEPT ![c] = "done"]
    /\ pkl' = [pkl EXCEPT ![posts[c]] = [state |-> "written", data |-> comments[c]]]
    /\ dumps' = [dumps EXCEPT ![posts[c]] = @ + 1]
    /\ returned' = [returned EXCEPT ![c] = Ok(comments[c])]
    /\ UNCHANGED <<posts, comments, pulls>>
    /\ UNCHANGED <<classifyVars, dateVars, summaryVars, flowVars, labelVars>>


(***************************************************************************)
(* aita_score_summary.  The DataFrame filter keeps the rows whose          *)
(* judgement is not None and whose score exceeds min_score; groupby sums   *)
(* the scores per judgement and yields the groups in sorted key order.     *)
(***************************************************************************)
\* the sort order of the judgement names, as groupby(sort=True) yields them
SortedNames == <<"ESH", "NAH", "NTA", "YTA">>

\* mutant: a score equal to min_score is kept
relevant_comments_geq(cs, min) ==
    SelectSeq(cs, LAMBDA c : c.judgement # None /\ c.score >= min)

relevant_comments(cs, min) ==
    SelectSeq(cs, LAMBDA c : c.judgement # None /\ c.score > min)

RECURSIVE sum_score(_)
sum_score(cs) == IF cs = <<>> THEN 0 ELSE Head(cs).score + sum_score(Tail(cs))

\* relevant.groupby("judgement").sum()["score"].to_dict()
groupby_sum(relevant) ==
    LET present == SelectSeq(SortedNames,
                        LAMBDA name : \E i \in 1..Len(relevant) : relevant[i].judgement = name)
    IN  [g \in 1..Len(present) |->
            <<present[g],
              sum_score(SelectSeq(relevant, LAMBDA c : c.judgement = present[g]))>>]

\* the default of the min_score parameter
DefaultMinScore == 25

aita_score_summary(cs, min) ==
    IF cs = <<>> THEN <<>> ELSE groupby_sum(relevant_comments(cs, min))

\* dict helpers: keys, membership and lookup of a sequence of <<key, value>>
DictKeys(d) == {d[i][1] : i \in 1..Len(d)}

DictGet(d, k) == d[CHOOSE i \in 1..Len(d) : d[i][1] = k][2]

(***************************************************************************)
(* Summary harness: a thread of top-level comments is parsed and summed.   *)
(***************************************************************************)
\* top-level comments as praw delivers them
RawComments ==
    { [body |-> NameChars("YTA"), score |-> 30],
      [body |-> NameChars("YTA"), score |-> -5],
      [body |-> NameChars("NTA"), score |-> 30],
      [body |-> NameChars("NAH"), score |-> 40],
      [body |-> NameChars("ESH"), score |-> 26],
      [body |-> NameChars("NTA") \o <<" ">> \o NameChars("YTA"), score |-> 30],
      [body |-> AutomodMarker \o <<" ">> \o NameChars("YTA"), score |-> 50] }

Threads == UNION {[1..n -> RawComments] : n \in 0..MaxComments}

\* values of min_score: below the moderator score, negative, the default, a score
MinScores == {-10000, -10, DefaultMinScore, 30}

SummaryIdle ==
    /\ top_level = <<>> /\ parsed = Idle /\ summary_min = DefaultMinScore /\ score_summary = Idle

\* parse_comment over the thread, as the loop of comment_judgements does
ParseComments ==
    /\ parsed = Pending
    /\ parsed' = Ok(pull_comments(top_level))
    /\ UNCHANGED <<top_level, summary_min, score_summary>>
    /\ UNCHANGED <<classifyVars, dateVars, fetchVars, flowVars, labelVars>>

\* one call aita_score_summary(parsed, min_score=summary_min)
ScoreSummary ==
    /\ parsed.status = "ok" /\ score_summary = Pending
    /\ score_summary' = Ok(aita_score_summary(parsed.value, summary_min))
    /\ UNCHANGED <<top_level, parsed, summary_min>>
    /\ UNCHANGED <<classifyVars, dateVars, fetchVars, flowVars, labelVars>>


(***************************************************************************)
(* aita_labels.py.  A quotient is [num, den] with den > 0.                 *)
(***************************************************************************)
Quot(a, b) == [num |-> a, den |-> b]

Zero == Quot(0, 1)

QuotLess(a, b) == a.num * b.den < b.num * a.den

QuotGeq(a, b) == a.num * b.den >= b.num * a.den

\* max(dd.items(), key=operator.itemgetter(1)): the index of the first item that
\* no later or earlier item exceeds; best is the index of the maximum so far
RECURSIVE max_item(_, _, _)
\* mutant: a later item that equals the maximum so far replaces it
RECURSIVE max_item_last(_, _, _)
max_item_last(d, best, i) ==
    IF i > Len(d) THEN best
    ELSE IF QuotGeq(d[i][2], d[best][2]) THEN max_item_last(d, i, i + 1)
    ELSE max_item_last(d, best, i + 1)

max_item(d, best, i) ==
    IF i > Len(d) THEN best
    ELSE IF QuotLess(d[best][2], d[i][2]) THEN max_item(d, i, i + 1)
    ELSE max_item(d, best, i + 1)

key_of_max_value_in_dict(d) ==
    IF d = <<>> THEN Raise("ValueError") ELSE Ok(d[max_item(d, 1, 2)][1])

\* row is a function from column names (and "total") to numbers
judgement_distribution(row) ==
    IF row["total"] > 0
    THEN IF \E i \in 1..Len(Judgement) : Judgement[i] \notin DOMAIN row
         THEN Raise("KeyError")
         ELSE Ok([i \in 1..Len(Judgement) |->
                    <<Judgement[i], Quot(row[Judgement[i]], row["total"])>>])
    ELSE Ok([i \in 1..Len(Judgement) |-> <<Judgement[i], Zero>>])

multiclass_label(d) ==
    LET highest_voted_judgement == key_of_max_value_in_dict(d)
    IN  IF highest_voted_judgement.status = "raised" THEN highest_voted_judgement
        ELSE Ok([i \in 1..Len(Judgement) |->
                    IF Judgement[i] = highest_voted_judgement.value THEN 1 ELSE 0])

multilabel_threshold_label(d, t) ==
    IF \E i \in 1..Len(Judgement) : Judgement[i] \notin DictKeys(d)
    THEN Raise("KeyError")
    ELSE Ok([i \in 1..Len(Judgement) |->
                IF QuotGeq(DictGet(d, Judgement[i]), t) THEN 1 ELSE 0])

regression_label(d) ==
    IF \E i \in 1..Len(Judgement) : Judgement[i] \notin DictKeys(d)
    THEN Raise("KeyError")
    ELSE Ok([i \in 1..Len(Judgement) |-> DictGet(d, Judgement[i])])

\* lambda x: [x[0] + x[-1], x[1] + x[-1]]
twoclass_multilabel(x) == <<x[1] + x[Len(x)], x[2] + x[Len(x)]>>

\* the threshold 0.2 of label_multilabel
FlowThreshold == Quot(1, 5)

(***************************************************************************)
(* AitaScrapeFlow: get_comments, then aggregate_comments.  submissions[i]  *)
(* is the thread of top-level comments of post i.  Of the DataFrame only   *)
(* the judgement columns are kept: the Post fields share no name with them.*)
(***************************************************************************)
\* the judgement columns of pd.DataFrame(post_aggcomments)
frame_columns(aggs) == UNION {DictKeys(aggs[i]) : i \in 1..Len(aggs)}

\* row i after fillna(0), with its "total"
RECURSIVE sum_columns(_, _)
sum_columns(row, names) ==
    IF names = <<>> THEN 0 ELSE row[Head(names)] + sum_columns(row, Tail(names))

frame_row(aggs, i) ==
    LET filled == [c \in frame_columns(aggs) |->
                        IF c \in DictKeys(aggs[i]) THEN DictGet(aggs[i], c) ELSE 0]
    IN  [c \in frame_columns(aggs) \cup {"total"} |->
            IF c = "total" THEN sum_columns(filled, Judgement) ELSE filled[c]]

\* the columns aggregate_comments adds to one row; an exception of a step ends it
labelled_row(row) ==
    LET distribution == judgement_distribution(row)
        multiclass   == multiclass_label(distribution.value)
        multilabel   == multilabel_threshold_label(distribution.value, FlowThreshold)
        regression   == regression_label(distribution.value)
    IN  IF distribution.status = "raised" THEN distribution
        ELSE IF multiclass.status = "raised" THEN multiclass
        ELSE IF multilabel.status = "raised" THEN multilabel
        ELSE IF regression.status = "raised" THEN regression
        ELSE Ok([total |-> row["total"],
                 distribution |-> distribution.value,
                 label_multiclass |-> multiclass.value,
                 label_multilabel |-> multilabel.value,
                 label_regression |-> regression.value,
                 label_twoclass_multilabel |-> twoclass_multilabel(multiclass.value)])

\* self.asshole_results, or the KeyError of selecting a judgement column no post has
aggregate_frame(aggs) ==
    LET rows == [i \in 1..Len(aggs) |-> labelled_row(frame_row(aggs, i))]
    IN  IF \E i \in 1..Len(Judgement) : Judgement[i] \notin frame_columns(aggs)
        THEN Raise("KeyError")
        ELSE IF \E i \in 1..Len(rows) : rows[i].status = "raised"
        THEN rows[CHOOSE i \in 1..Len(rows) :
                    /\ rows[i].status = "raised"
                    /\ \A j \in 1..(i - 1) : rows[j].status = "ok"]
        ELSE Ok([i \in 1..Len(rows) |-> rows[i].value])

FlowIdle ==
    /\ submissions = <<>> /\ flow_step = "idle"
    /\ post_comments = <<>> /\ aggregated_comments = <<>> /\ asshole_results = Idle

\* step get_comments: comment_judgements of every post
GetComments ==
    /\ flow_step = "get_comments"
    /\ post_comments' = [i \in 1..Len(submissions) |-> pull_comments(submissions[i])]
    /\ flow_step' = "aggregate_comments"
    /\ UNCHANGED <<submissions, aggregated_comments, asshole_results>>
    /\ UNCHANGED <<classifyVars, dateVars, fetchVars, summaryVars, labelVars>>

\* step aggregate_comments; aita_score_summary is called with its default min_score
AggregateComments ==
    /\ flow_step = "aggregate_comments"
    /\ LET aggs == [i \in 1..Len(post_comments) |->
                        aita_score_summary(post_comments[i], DefaultMinScore)]
       IN  /\ aggregated_comments' = aggs
           /\ asshole_results' = aggregate_frame(aggs)
           /\ flow_step' = IF aggregate_frame(aggs).status = "raised" THEN "failed" ELSE "end"
    /\ UNCHANGED <<submissions, post_comments>>
    /\ UNCHANGED <<classifyVars, dateVars, fetchVars, summaryVars, labelVars>>

(***************************************************************************)
(* Encoder harness: one encoder applied to a dict whose keys are judgement *)
(* names in any order, some possibly missing.                              *)
(***************************************************************************)
\* sequences of distinct judgement names
KeyOrders ==
    {ks \in UNION {[1..n -> JudgementNames] : n \in 0..Len(Judgement)} :
        \A i, j \in 1..Len(ks) : i # j => ks[i] # ks[j]}

\* dicts over a key order with values k / MaxNum
Dicts ==
    UNION { {[i \in 1..Len(ks) |-> <<ks[i], Quot(ns[i], MaxNum)>>] :
                ns \in [1..Len(ks) -> 0..MaxNum]} : ks \in KeyOrders }

Thresholds == {Quot(1, 5), Quot(1, 2)}

LabelIdle == dd = <<>> /\ ths = Zero /\ encoder = "idle" /\ label = Idle

MulticlassLabel ==
    /\ encoder = "pending"
    /\ encoder' = "multiclass"
    /\ label' = multiclass_label(dd)
    /\ UNCHANGED <<dd, ths>>
    /\ UNCHANGED <<classifyVars, dateVars, fetchVars, summaryVars, flowVars>>

MultilabelThresholdLabel ==
    /\ encoder = "pending"
    /\ encoder' = "multilabel"
    /\ label' = multilabel_threshold_label(dd, ths)
    /\ UNCHANGED <<dd, ths>>
    /\ UNCHANGED <<classifyVars, dateVars, fetchVars, summaryVars, flowVars>>

RegressionLabel ==
    /\ encoder = "pending"
    /\ encoder' = "regression"
    /\ label' = regression_label(dd)
    /\ UNCHANGED <<dd, ths>>
    /\ UNCHANGED <<classifyVars, dateVars, fetchVars, summaryVars, flowVars>>

(***************************************************************************)
(* Specifications.                                                         *)
(***************************************************************************)
\* the flow over a batch of posts
Init ==
    /\ ClassifyIdle /\ DateIdle /\ FetchIdle /\ SummaryIdle /\ LabelIdle
    /\ submissions \in UNION {[1..n -> Threads] : n \in 0..MaxPosts}
    /\ flow_step = "get_comments"
    /\ post_comments = <<>> /\ aggregated_comments = <<>> /\ asshole_results = Pending

Next == GetComments \/ AggregateComments

Spec == Init /\ [][Next]_vars

\* aita_comment_judgement on every body
InitClassify ==
    /\ DateIdle /\ FetchIdle /\ SummaryIdle /\ FlowIdle /\ LabelIdle
    /\ comment_body \in Bodies
    /\ judgement_out = "pending"

NextClassify == Classify

SpecClassify == InitClassify /\ [][NextClassify]_vars

\* get_date_ranges on every period and increment
InitDates ==
    /\ ClassifyIdle /\ FetchIdle /\ SummaryIdle /\ FlowIdle /\ LabelIdle
    /\ date_start \in StartDates
    /\ \E span \in 0..MaxSpan : date_end = strftime(to_datetime(date_start) + span)
    /\ day_increment \in 1..MaxIncrement
    /\ date_ranges = Pending

NextDates == GetDateRanges

SpecDates == InitDates /\ [][NextDates]_vars

\* comment_judgements calls under parallel_map
InitFetch ==
    /\ ClassifyIdle /\ DateIdle /\ SummaryIdle /\ FlowIdle /\ LabelIdle
    /\ posts \in UNION {[1..n -> PostIds] : n \in 1..MaxCalls}
    /\ pc = [c \in 1..Len(posts) |-> "exists"]
    /\ comments = [c \in 1..Len(posts) |-> <<>>]
    /\ returned = [c \in 1..Len(posts) |-> Pending]
    /\ pkl = [id \in PostIds |-> [state |-> "missing"]]
    /\ pulls = [id \in PostIds |-> 0]
    /\ dumps = [id \in PostIds |-> 0]

NextFetch ==
    \/ \E c \in Calls : Exists(c)
    \/ \E c \in Calls : Load(c)
    \/ \E c \in Calls : Pull(c)
    \/ \E c \in Calls : Open(c)
    \/ \E c \in Calls : Dump(c)

SpecFetch == InitFetch /\ [][NextFetch]_vars

\* parse_comment and aita_score_summary on every thread
InitSummary ==
    /\ ClassifyIdle /\ DateIdle /\ FetchIdle /\ FlowIdle /\ LabelIdle
    /\ top_level \in Threads
    /\ summary_min \in MinScores
    /\ parsed = Pending /\ score_summary = Pending

NextSummary == ParseComments \/ ScoreSummary

SpecSummary == InitSummary /\ [][NextSummary]_vars

\* the encoders on every dict
InitLabels ==
    /\ ClassifyIdle /\ DateIdle /\ FetchIdle /\ SummaryIdle /\ FlowIdle
    /\ dd \in Dicts
    /\ ths \in Thresholds
    /\ encoder = "pending" /\ label = Pending

NextLabels == MulticlassLabel \/ MultilabelThresholdLabel \/ RegressionLabel

SpecLabels == InitLabels /\ [][NextLabels]_vars


(***************************************************************************)
(* Properties.                                                             *)
(***************************************************************************)
\* pat occurs in body: some slice of body equals pat
Occurs(pat, body) ==
    \E i \in 1..(Len(body) + 1) : \E j \in 0..Len(body) : SubSeq(body, i, j) = pat

HasMarker(body) == Occurs(BotMarker, body) \/ Occurs(AutomodMarker, body)

CodesPresent(body) == {name \in JudgementNames : Occurs(NameChars(name), body)}

DayAfter(date) ==
    IF date[3] < DaysInMonth(date[1], date[2]) THEN <<date[1], date[2], date[3] + 1>>
    ELSE IF date[2] < 12 THEN <<date[1], date[2] + 1, 1>>
    ELSE <<date[1] + 1, 1, 1>>

\* the number of days of the period from..to, both inclusive; 0 when `to` is not
\* reached within fuel days
RECURSIVE DaysFromTo(_, _, _)
DaysFromTo(from, to, fuel) ==
    IF fuel = 0 THEN 0
    ELSE IF from = to THEN 1
    ELSE LET rest == DaysFromTo(DayAfter(from), to, fuel - 1)
         IN  IF rest = 0 THEN 0 ELSE rest + 1

Fuel == MaxSpan + MaxIncrement + 2

\* C9: get_date_ranges returns ceil(days / day_increment) ranges; the first starts
\* at date_start, the last ends at date_end, each later range starts the day after
\* the previous one ends, and every range but the last spans day_increment days,
\* the last at most that many.
C9_DateRangesPartition ==
    date_ranges.status = "ok" =>
        LET r == date_ranges.value
            n == Len(r)
            days == DaysFromTo(date_start, date_end, Fuel)
            span(i) == DaysFromTo(r[i].start, r[i].end, Fuel)
        IN  /\ days >= 1
            /\ n = (days + day_increment - 1) \div day_increment
            /\ r[1].start = date_start
            /\ r[n].end = date_end
            /\ \A i \in 1..(n - 1) : r[i + 1].start = DayAfter(r[i].end)
            /\ \A i \in 1..(n - 1) : span(i) = day_increment
            /\ span(n) >= 1 /\ span(n) <= day_increment

\* 2020-01-01 to 2020-01-10 by 3 days: four ranges, the last a single day
C9_Witness ==
    /\ date_ranges.status = "ok"
    /\ date_start = <<2020, 1, 1>> /\ date_end = <<2020, 1, 10>> /\ day_increment = 3
    /\ Len(date_ranges.value) = 4
    /\ date_ranges.value[4] = [start |-> <<2020, 1, 10>>, end |-> <<2020, 1, 10>>]

\* the sum of the scores of the comments at a set of positions
RECURSIVE ScoreOver(_, _)
ScoreOver(cs, idx) ==
    IF idx = {} THEN 0
    ELSE LET i == CHOOSE i \in idx : TRUE
         IN  cs[i].score + ScoreOver(cs, idx \ {i})

\* positions of the comments with a judgement and a score above min
Survivors(cs, min) ==
    {i \in 1..Len(cs) : cs[i].judgement \in JudgementNames /\ cs[i].score > min}

\* C3: the keys of aita_score_summary are exactly the judgements of the comments
\* with a judgement and a score strictly above min_score, each mapped to the sum
\* of the scores of those comments; the result is empty when none survives.
C3_SummaryIsGroupedSum ==
    score_summary.status = "ok" =>
        LET cs == parsed.value
            s  == score_summary.value
            surv == Survivors(cs, summary_min)
        IN  /\ DictKeys(s) = {cs[i].judgement : i \in surv}
            /\ Cardinality(DictKeys(s)) = Len(s)
            /\ \A g \in 1..Len(s) :
                    s[g][2] = ScoreOver(cs, {i \in surv : cs[i].judgement = s[g][1]})
            /\ (surv = {} => s = <<>>)

\* a comment whose score equals min_score is left out, another one is summed
C3_Witness ==
    /\ score_summary.status = "ok"
    /\ summary_min = 30
    /\ \E i \in 1..Len(parsed.value) :
            parsed.value[i].judgement = "YTA" /\ parsed.value[i].score = 30
    /\ score_summary.value = << <<"NAH", 40>> >>

\* C8: a comment whose body holds an automated-actor marker is parsed into a
\* Comment with the same body, no judgement and the score -9999, and the score
\* summary is the summary of the thread without such comments, for every min_score.
C8_ModCommentsExcluded ==
    /\ parsed.status = "ok" =>
          /\ Len(parsed.value) = Len(top_level)
          /\ \A i \in 1..Len(top_level) :
                HasMarker(top_level[i].body) =>
                    parsed.value[i] =
                        [body |-> top_level[i].body, score |-> -9999, judgement |-> None]
    /\ score_summary.status = "ok" =>
          score_summary.value =
              aita_score_summary(
                  SelectSeq(parsed.value, LAMBDA c : ~HasMarker(c.body)), summary_min)

\* a moderator comment next to a counted comment, min_score below the moderator score
C8_Witness ==
    /\ score_summary.status = "ok"
    /\ summary_min < -9999
    /\ \E i \in 1..Len(top_level) : HasMarker(top_level[i].body)
    /\ Len(score_summary.value) = 1

\* position i of dict d holds a value no other position exceeds
IsMaximal(d, i) == \A j \in 1..Len(d) : d[j][2].num * d[i][2].den <= d[i][2].num * d[j][2].den

\* C6: on a dict with all four judgement keys multiclass_label returns a vector of
\* length 4 with exactly one 1, at the enum position of the first key, in the
\* dict's iteration order, whose value is maximal.
C6_MulticlassOneHotFirstMax ==
    (encoder = "multiclass" /\ DictKeys(dd) = JudgementNames) =>
        /\ label.status = "ok"
        /\ Len(label.value) = 4
        /\ \A p \in 1..4 : label.value[p] \in {0, 1}
        /\ Cardinality({p \in 1..4 : label.value[p] = 1}) = 1
        /\ \E i \in 1..Len(dd) :
              /\ IsMaximal(dd, i)
              /\ \A j \in 1..(i - 1) : ~IsMaximal(dd, j)
              /\ \A p \in 1..4 : label.value[p] = 1 <=> Judgement[p] = dd[i][1]

\* ESH and YTA tie for the maximum and ESH comes first in the dict: ESH is chosen
C6_Witness ==
    /\ encoder = "multiclass" /\ DictKeys(dd) = JudgementNames
    /\ dd[1][1] = "ESH" /\ dd[2][1] = "YTA"
    /\ IsMaximal(dd, 1) /\ IsMaximal(dd, 2)
    /\ label = Ok(<<0, 0, 0, 1>>)

\* C7: each encoder, given a dict that lacks a judgement key, raises and returns
\* no label vector.
C7_MissingKeyRaises ==
    (encoder \in {"multiclass", "multilabel", "regression"}
        /\ DictKeys(dd) # JudgementNames) =>
        label.status = "raised"


\* the rows of the frame once aggregate_comments has ended without an exception
Rows == asshole_results.value

\* C1: the two-class label derived from the one-hot multiclass vector has one
\* entry 1 and one entry 0, so it sums to 1, whichever position holds the 1.
C1_TwoClassSumsToOne ==
    flow_step = "end" =>
        \A i \in 1..Len(Rows) :
            LET two == Rows[i].label_twoclass_multilabel
            IN  /\ two[1] \in {0, 1} /\ two[2] \in {0, 1}
                /\ two[1] + two[2] = 1

\* the sum of the values of a dict
RECURSIVE SumValues(_)
SumValues(d) == IF d = <<>> THEN 0 ELSE Head(d)[2] + SumValues(Tail(d))

\* the sum of the numerators of a distribution whose entries share a denominator
RECURSIVE SumNums(_)
SumNums(d) == IF d = <<>> THEN 0 ELSE Head(d)[2].num + SumNums(Tail(d))

\* C4: for the weights of every post and their sum as total, the distribution maps
\* every judgement to a fraction in [0, 1]; the entries sum to 1 when total > 0
\* and are all 0 when total <= 0; no exception is raised.
C4_DistributionIsNormalised ==
    flow_step \in {"end", "failed"} =>
        \A i \in 1..Len(aggregated_comments) :
            /\ asshole_results.status = "ok"
            /\ LET dist == Rows[i].distribution
                   total == SumValues(aggregated_comments[i])
               IN  /\ DictKeys(dist) = JudgementNames
                   /\ \A k \in 1..Len(dist) :
                         /\ dist[k][2].den > 0
                         /\ 0 <= dist[k][2].num /\ dist[k][2].num <= dist[k][2].den
                   /\ total > 0 =>
                         /\ \A k \in 1..Len(dist) : dist[k][2].den = total
                         /\ SumNums(dist) = total
                   /\ total <= 0 => \A k \in 1..Len(dist) : dist[k][2].num = 0

\* C5: for weights with total > 0 the distribution has exactly one entry for each
\* of the four judgements, also when the weights lack a judgement, whose entry is
\* then 0; a missing judgement is no error.
C5_MissingCategoryIsZero ==
    flow_step \in {"end", "failed"} =>
        \A i \in 1..Len(aggregated_comments) :
            SumValues(aggregated_comments[i]) > 0 =>
                /\ asshole_results.status = "ok"
                /\ Len(Rows[i].distribution) = 4
                /\ DictKeys(Rows[i].distribution) = JudgementNames
                /\ \A k \in 1..4 :
                      Rows[i].distribution[k][1] \notin DictKeys(aggregated_comments[i])
                          => Rows[i].distribution[k][2].num = 0

\* C10: under every interleaving of the comment_judgements calls the pickle of a
\* post is written at most once and its comments are pulled at most once.
C10_AtMostOnePullAndDump ==
    \A id \in PostIds : pulls[id] <= 1 /\ dumps[id] <= 1

====
